---- MODULE Spec2Model ----
(***************************************************************************)
(* A model of arrow/src/ffi.rs: the Arrow C Data Interface bridge.         *)
(*                                                                         *)
(*   - the format codec (to_format, to_field) and the schema descriptor    *)
(*     FFI_ArrowSchema with its release callback;                          *)
(*   - the array descriptor FFI_ArrowArray, its construction from an       *)
(*     ArrayData and its release callback;                                 *)
(*   - the bridge ArrowArray (two Arc handles), the reconstruction         *)
(*     to_data with the buffer-shape oracle (bit_width, buffer_len), and   *)
(*     the owner handles that imported buffers keep on the root array.     *)
(*                                                                         *)
(* Strings are sequences of characters, C strings are such sequences with  *)
(* a terminating NUL, memory regions are sequences of bytes, and a raw     *)
(* pointer is a record [null, mem]: null or the region it points to.       *)
(***************************************************************************)
EXTENDS Integers, Sequences, FiniteSets, TLC

VARIABLES
    \* ---- the bridge life cycle (Spec) ----
    source,      \* the ArrayData handed to ArrowArray::try_new
    built,       \* "none" | "try_new" | "empty": what built the bridge
    array_arc,   \* the Arc<FFI_ArrowArray> allocation: strong count and record
    schema_arc,  \* the Arc<FFI_ArrowSchema> allocation: strong count and record
    bridge,      \* "none" | "live" | "raw" | "dropped": the ArrowArray value
    live,        \* the imported Buffers that are alive, each with its owner handle
    imports,     \* number of to_data calls made so far
    result,      \* the result of the last call (try_new, to_data, try_from_raw)
    \* ---- the codec alone (SpecCodec) ----
    cfield,      \* the Field given to FFI_ArrowSchema::try_new
    cschema,     \* the schema descriptor under decoding
    cout,        \* the result of the last codec call
    cpc,         \* "start" | "exported" | "foreign" | "decoded" | "dropped"
    \* ---- threads dropping shared handles (SpecThreads) ----
    tarc,        \* the shared Arc<FFI_ArrowArray>: strong count and record
    tpc,         \* per thread: "holding" | "last" (to drop the value) | "done"
    tkind,       \* per thread: the handle it holds, "bridge" or "buffer"
    tlog         \* the events so far: <<"dec", t>> and <<"release", t>>

lifeVars   == <<source, built, array_arc, schema_arc, bridge, live, imports, result>>
codecVars  == <<cfield, cschema, cout, cpc>>
threadVars == <<tarc, tpc, tkind, tlog>>
vars       == <<lifeVars, codecVars, threadVars>>

(***************************************************************************)
(* Bounds of the model.                                                    *)
(***************************************************************************)
MaxLen     == 2   \* logical length of a generated array: 0..MaxLen
MaxOffset  == 1   \* logical offset of a generated array: 0..MaxOffset
MaxDepth   == 2   \* nesting depth of generated List/LargeList/Struct types
MaxImports == 1   \* to_data calls per bridge
MaxFlag    == 5   \* foreign schema flags range over -MaxFlag..MaxFlag
MaxThreads == 3   \* threads sharing one descriptor
MaxIndex   == 3   \* buffer indices asked of the oracle: 0..MaxIndex

(***************************************************************************)
(* Results: Rust's Result, plus the two ways a call can fail to return.    *)
(*   "Ok" / "Err"  the call returned Ok(val) / Err(_)                      *)
(*   "Panic"       an assert!, unwrap() or expect() aborted the call       *)
(*   "UB"          the call read memory it has no right to read            *)
(***************************************************************************)
Ok(v)       == [tag |-> "Ok", val |-> v]
Fail(t)     == [tag |-> t, val |-> <<>>]
Min(S)      == CHOOSE x \in S : \A y \in S : x <= y
Range(s)    == {s[i] : i \in DOMAIN s}
\* F applied to the value of e: Rust's `let v = e; F(v)`.
Bind(e, F(_)) == CHOOSE r \in {F(v) : v \in {e}} : TRUE

(***************************************************************************)
(* Characters, strings and C strings.                                      *)
(***************************************************************************)
NUL     == "NUL"     \* the zero byte
BadByte == "0xFF"    \* a byte that is not valid UTF-8

NullPtr  == [null |-> TRUE, mem |-> <<>>]
Ptr(mem) == [null |-> FALSE, mem |-> mem]
Freed    == Ptr(<<>>)    \* a dangling pointer: nothing behind it may be read

\* CString::new(s).unwrap().into_raw(): fails on an interior NUL.
CString_new(s) ==
    IF NUL \in Range(s) THEN Fail("Panic") ELSE Ok(Ptr(s \o <<NUL>>))

\* CStr::from_ptr(p): the bytes before the first NUL.
CStr_from_ptr(p) ==
    Bind({i \in DOMAIN p.mem : p.mem[i] = NUL}, LAMBDA nuls :
        IF nuls = {} THEN Fail("UB") ELSE Ok(SubSeq(p.mem, 1, Min(nuls) - 1)))

\* CStr::to_str(): UTF-8 validation.
to_str(bytes) ==
    IF BadByte \in Range(bytes) THEN Fail("Err") ELSE Ok(bytes)

(***************************************************************************)
(* crate::datatypes: DataType, TimeUnit and Field, as ffi.rs uses them.    *)
(* A DataType is [k, u, fields]: the variant, its TimeUnit ("" if none)    *)
(* and its child fields (List, LargeList: one; Struct: any number).        *)
(***************************************************************************)
DT(k)        == [k |-> k, u |-> "", fields |-> <<>>]
DTU(k, u)    == [k |-> k, u |-> u, fields |-> <<>>]
DTF(k, fs)   == [k |-> k, u |-> "", fields |-> fs]
Field_new(name, data_type, nullable) ==
    [name |-> name, data_type |-> data_type, nullable |-> nullable]

TimeUnits == {"Second", "Millisecond", "Microsecond", "Nanosecond"}

\* The leaf types of the format table.
FixedWidthTypes ==
    {DT(k) : k \in {"Boolean", "Int8", "UInt8", "Int16", "UInt16", "Int32",
                    "UInt32", "Int64", "UInt64", "Float16", "Float32",
                    "Float64", "Date32", "Date64"}}
    \cup {DTU("Time32", "Second"), DTU("Time32", "Millisecond"),
          DTU("Time64", "Microsecond"), DTU("Time64", "Nanosecond")}
VarWidthTypes ==
    {DT(k) : k \in {"Utf8", "Binary", "LargeUtf8", "LargeBinary"}}
TableLeafTypes == {DT("Null")} \cup FixedWidthTypes \cup VarWidthTypes

\* Leaf variants outside the format table.
OtherLeafTypes ==
    {DTU("Timestamp", u) : u \in TimeUnits}
    \cup {DTU("Duration", u) : u \in TimeUnits}
    \cup {DTU("Time32", "Microsecond"), DTU("Time32", "Nanosecond"),
          DTU("Time64", "Second"), DTU("Time64", "Millisecond")}
    \cup {DTU("Interval", "YearMonth"), DTU("Interval", "DayTime")}
    \cup {DT("Decimal"), DT("FixedSizeBinary"), DT("Union"), DT("Dictionary"),
          DTF("FixedSizeList", <<Field_new(<<"x">>, DT("Int32"), TRUE)>>)}

(***************************************************************************)
(* to_format                                                               *)
(***************************************************************************)
to_format(data_type) ==
    LET k == data_type.k
        u == data_type.u
    IN  CASE k = "Null"        -> Ok(<<"n">>)
          [] k = "Boolean"     -> Ok(<<"b">>)
          [] k = "Int8"        -> Ok(<<"c">>)
          [] k = "UInt8"       -> Ok(<<"C">>)
          [] k = "Int16"       -> Ok(<<"s">>)
          [] k = "UInt16"      -> Ok(<<"S">>)
          [] k = "Int32"       -> Ok(<<"i">>)
          [] k = "UInt32"      -> Ok(<<"I">>)
          [] k = "Int64"       -> Ok(<<"l">>)
          [] k = "UInt64"      -> Ok(<<"L">>)
          [] k = "Float16"     -> Ok(<<"e">>)
          [] k = "Float32"     -> Ok(<<"f">>)
          [] k = "Float64"     -> Ok(<<"g">>)
          [] k = "Binary"      -> Ok(<<"z">>)
          [] k = "LargeBinary" -> Ok(<<"Z">>)
          [] k = "Utf8"        -> Ok(<<"u">>)
          [] k = "LargeUtf8"   -> Ok(<<"U">>)
          [] k = "Date32"      -> Ok(<<"t", "d", "D">>)
          [] k = "Date64"      -> Ok(<<"t", "d", "m">>)
          [] k = "Time32" /\ u = "Second"      -> Ok(<<"t", "t", "s">>)
          [] k = "Time32" /\ u = "Millisecond" -> Ok(<<"t", "t", "m">>)
          [] k = "Time64" /\ u = "Microsecond" -> Ok(<<"t", "t", "u">>)
          [] k = "Time64" /\ u = "Nanosecond"  -> Ok(<<"t", "t", "n">>)
          [] k = "List"        -> Ok(<<"+", "l">>)
          [] k = "LargeList"   -> Ok(<<"+", "L">>)
          [] k = "Struct"      -> Ok(<<"+", "s">>)
          [] OTHER             -> Fail("Err")

(***************************************************************************)
(* FFI_ArrowSchema: the schema descriptor.                                 *)
(*   format, name   raw pointers to C strings                              *)
(*   flags          i64                                                    *)
(*   n_children     i64                                                    *)
(*   children       the children vector: the child records it points to    *)
(*   release        TRUE iff the release callback pointer is non-null      *)
(*   null_fields    which of the pointers metadata, children, dictionary   *)
(*                  and private_data are null                              *)
(*   calls          (ghost) how often the release callback has been called *)
(***************************************************************************)
\* Variant of FFI_ArrowSchema_empty that leaves a release callback set.
FFI_ArrowSchema_empty_unreleased ==
    [format |-> NullPtr, name |-> NullPtr, flags |-> 0, n_children |-> 0,
     children |-> <<>>, release |-> TRUE,
     null_fields |-> {"metadata", "children", "dictionary", "private_data"},
     calls |-> 0]

\* FFI_ArrowSchema::empty
FFI_ArrowSchema_empty ==
    [format |-> NullPtr, name |-> NullPtr, flags |-> 0, n_children |-> 0,
     children |-> <<>>, release |-> FALSE,
     null_fields |-> {"metadata", "children", "dictionary", "private_data"},
     calls |-> 0]

\* Variant of DropSchema that forgets the descriptor instead.
DropSchema_forget(schema) == schema

\* Drop for FFI_ArrowSchema and release_schema, which frees the two strings
\* and drops every child box.
RECURSIVE DropSchema(_), release_schema(_)
release_schema(schema) ==
    [schema EXCEPT !.format   = Freed,
                   !.name     = Freed,
                   !.children = [i \in DOMAIN @ |-> DropSchema(@[i])],
                   !.release  = FALSE,
                   !.calls    = @ + 1]
DropSchema(schema) ==
    IF schema.release THEN release_schema(schema) ELSE schema

\* The child fields FFI_ArrowSchema::try_new descends into.
SchemaChildFields(data_type) ==
    CASE data_type.k \in {"List", "LargeList"} -> <<data_type.fields[1]>>
      [] data_type.k = "Struct"                -> data_type.fields
      [] OTHER                                 -> <<>>

\* Variant of FlagsOf that sets bit 0 instead of bit 1.
FlagsOf_bit0(b) == IF b THEN 1 ELSE 0

\* `field.is_nullable() as i64 * 2`
FlagsOf(nullable) == (IF nullable THEN 1 ELSE 0) * 2

\* FFI_ArrowSchema::try_new. The result carries, besides tag and val, the
\* descriptors the call built and dropped again before it returned (ghost).
RECURSIVE FFI_ArrowSchema_try_new(_)
FFI_ArrowSchema_try_new(field) ==
    LET none == [tag |-> "Err", val |-> FFI_ArrowSchema_empty, dropped |-> <<>>]
        build(format, kids) ==
            Bind(<<CString_new(format), CString_new(field.name)>>, LAMBDA cs :
                IF cs[1].tag # "Ok" \/ cs[2].tag # "Ok"
                THEN \* unwrap() of CString::new: the children were already
                     \* turned into raw pointers and are not dropped
                     [none EXCEPT !.tag = "Panic"]
                ELSE [tag |-> "Ok", dropped |-> <<>>,
                      val |-> [format     |-> cs[1].val,
                               name       |-> cs[2].val,
                               flags      |-> FlagsOf(field.nullable),
                               n_children |-> Len(kids),
                               children   |-> [i \in DOMAIN kids |-> kids[i].val],
                               release    |-> TRUE,
                               null_fields |-> {"metadata", "dictionary"},
                               calls      |-> 0]])
        children(format) ==
            Bind(SchemaChildFields(field.data_type), LAMBDA kidFields :
            Bind([i \in DOMAIN kidFields |->
                     FFI_ArrowSchema_try_new(kidFields[i])], LAMBDA kids :
            Bind({i \in DOMAIN kids : kids[i].tag # "Ok"}, LAMBDA bad :
                IF bad = {} THEN build(format, kids)
                ELSE \* `?`: the children collected so far are dropped
                     [none EXCEPT
                        !.tag = kids[Min(bad)].tag,
                        !.dropped = kids[Min(bad)].dropped \o
                            [i \in 1..(Min(bad) - 1) |->
                                DropSchema(kids[i].val)]])))
    IN  Bind(to_format(field.data_type), LAMBDA format :
            IF format.tag # "Ok" THEN none ELSE children(format.val))

\* Rust's `/` on i64 truncates towards zero; TLA+'s \div rounds down.
TruncDiv(a, b) == IF a >= 0 THEN a \div b ELSE -((-a) \div b)
\* `x & 1` on a two's-complement integer is x mod 2.
BitAnd1(x) == x % 2

\* FFI_ArrowSchema::format: assert!(!null), from_ptr, to_str().expect(..)
format(schema) ==
    IF schema.format.null THEN Fail("Panic")
    ELSE Bind(CStr_from_ptr(schema.format), LAMBDA raw :
            IF raw.tag # "Ok" THEN raw
            ELSE IF to_str(raw.val).tag # "Ok" THEN Fail("Panic")
            ELSE Ok(raw.val))

\* FFI_ArrowSchema::name: assert!(!null), from_ptr, to_str().unwrap()
name(schema) ==
    IF schema.name.null THEN Fail("Panic")
    ELSE Bind(CStr_from_ptr(schema.name), LAMBDA raw :
            IF raw.tag # "Ok" THEN raw
            ELSE IF to_str(raw.val).tag # "Ok" THEN Fail("Panic")
            ELSE Ok(raw.val))

\* FFI_ArrowSchema::nullable
nullable(schema) == BitAnd1(TruncDiv(schema.flags, 2)) = 1

\* `n as usize` for an i64 n, as far as comparisons with an index go: a
\* negative n becomes a value above every index.
IndexBelow(index, n) == n < 0 \/ index < n

\* FFI_ArrowSchema::child(index), index counted from 0.
child(schema, index) ==
    IF ~IndexBelow(index, schema.n_children) THEN Fail("Panic")
    ELSE IF schema.name.null THEN Fail("Panic")
    ELSE IF index >= Len(schema.children) THEN Fail("UB")
    ELSE Ok(schema.children[index + 1])

\* Variant of LeafOfFormat without the rejecting arm: every string decodes.
LeafOfFormat_total(f) == Ok(DT("Binary"))

\* The leaf arms of to_field's match.
LeafOfFormat(f) ==
    CASE f = <<"n">> -> Ok(DT("Null"))
      [] f = <<"b">> -> Ok(DT("Boolean"))
      [] f = <<"c">> -> Ok(DT("Int8"))
      [] f = <<"C">> -> Ok(DT("UInt8"))
      [] f = <<"s">> -> Ok(DT("Int16"))
      [] f = <<"S">> -> Ok(DT("UInt16"))
      [] f = <<"i">> -> Ok(DT("Int32"))
      [] f = <<"I">> -> Ok(DT("UInt32"))
      [] f = <<"l">> -> Ok(DT("Int64"))
      [] f = <<"L">> -> Ok(DT("UInt64"))
      [] f = <<"e">> -> Ok(DT("Float16"))
      [] f = <<"f">> -> Ok(DT("Float32"))
      [] f = <<"g">> -> Ok(DT("Float64"))
      [] f = <<"z">> -> Ok(DT("Binary"))
      [] f = <<"Z">> -> Ok(DT("LargeBinary"))
      [] f = <<"u">> -> Ok(DT("Utf8"))
      [] f = <<"U">> -> Ok(DT("LargeUtf8"))
      [] f = <<"t", "d", "D">> -> Ok(DT("Date32"))
      [] f = <<"t", "d", "m">> -> Ok(DT("Date64"))
      [] f = <<"t", "t", "s">> -> Ok(DTU("Time32", "Second"))
      [] f = <<"t", "t", "m">> -> Ok(DTU("Time32", "Millisecond"))
      [] f = <<"t", "t", "u">> -> Ok(DTU("Time64", "Microsecond"))
      [] f = <<"t", "t", "n">> -> Ok(DTU("Time64", "Nanosecond"))
      [] OTHER -> Fail("Err")

\* Variant of Collect that evaluates every element and reports the last
\* failure.
Collect_last(results) ==
    IF \E i \in DOMAIN results : results[i].tag # "Ok"
    THEN Fail(results[CHOOSE i \in DOMAIN results :
                        /\ results[i].tag # "Ok"
                        /\ \A j \in DOMAIN results :
                              results[j].tag # "Ok" => j <= i].tag)
    ELSE Ok([i \in DOMAIN results |-> results[i].val])

\* The first result of a sequence of results that is not Ok, or Ok of the
\* values: `collect::<Result<Vec<_>>>()` over a lazy iterator.
Collect(results) ==
    Bind(results, LAMBDA rs :
    Bind({i \in DOMAIN rs : rs[i].tag # "Ok"}, LAMBDA bad :
        IF bad # {} THEN Fail(rs[Min(bad)].tag)
        ELSE Ok([i \in DOMAIN rs |-> rs[i].val])))

\* to_field
RECURSIVE to_field(_), DecodeChild(_, _)
DecodeChild(schema, index) ==
    Bind(child(schema, index), LAMBDA c :
        IF c.tag # "Ok" THEN Fail(c.tag) ELSE to_field(c.val))
to_field(schema) ==
    LET finish(dt) ==
            IF dt.tag # "Ok" THEN Fail(dt.tag)
            ELSE Bind(name(schema), LAMBDA n :
                    IF n.tag # "Ok" THEN Fail(n.tag)
                    ELSE Ok(Field_new(n.val, dt.val, nullable(schema))))
        decode(f) ==
            IF f \in {<<"+", "l">>, <<"+", "L">>}
            THEN Bind(DecodeChild(schema, 0), LAMBDA item :
                    IF item.tag # "Ok" THEN Fail(item.tag)
                    ELSE Ok(DTF(IF f = <<"+", "l">> THEN "List" ELSE "LargeList",
                                <<item.val>>)))
            ELSE IF f = <<"+", "s">>
            THEN \* (0..n_children as usize): a negative count runs off the
                 \* children vector
                 Bind(IF schema.n_children < 0 THEN Len(schema.children) + 1
                      ELSE schema.n_children, LAMBDA n :
                 Bind(Collect([i \in 1..n |-> DecodeChild(schema, i - 1)]),
                      LAMBDA cs :
                    IF cs.tag # "Ok" THEN Fail(cs.tag)
                    ELSE Ok(DTF("Struct", cs.val))))
            ELSE LeafOfFormat(f)
    IN  Bind(format(schema), LAMBDA fmt :
            IF fmt.tag # "Ok" THEN Fail(fmt.tag)
            ELSE Bind(decode(fmt.val), LAMBDA dt : finish(dt)))

(***************************************************************************)
(* Inputs of the codec: fields to export, foreign schemas to decode.       *)
(***************************************************************************)
Names      == {<<>>, <<"a">>, <<"a", NUL, "b">>}
InnerNames == {<<"i", "t">>, <<NUL>>}
InnerLeafTypes == {DT("Int32"), DTU("Timestamp", "Second")}
FirstField == Field_new(<<"x">>, DT("Utf8"), TRUE)

\* List, LargeList and Struct types nested up to depth d.
RECURSIVE NestedTypes(_)
NestedTypes(d) ==
    IF d = 0 THEN {}
    ELSE LET inner == {Field_new(n, t, b) :
                         n \in InnerNames,
                         t \in InnerLeafTypes \cup NestedTypes(d - 1),
                         b \in BOOLEAN}
         IN  {DTF("Struct", <<>>)}
             \cup {DTF("List", <<f>>) : f \in inner}
             \cup {DTF("LargeList", <<f>>) : f \in inner}
             \cup {DTF("Struct", <<FirstField, f>>) : f \in inner}

CodecFields ==
    {Field_new(n, t, b) :
        n \in Names,
        t \in TableLeafTypes \cup OtherLeafTypes \cup NestedTypes(MaxDepth),
        b \in BOOLEAN}

\* The format strings of the format table.
TableLeafFormats ==
    {<<"n">>, <<"b">>, <<"c">>, <<"C">>, <<"s">>, <<"S">>, <<"i">>, <<"I">>,
     <<"l">>, <<"L">>, <<"e">>, <<"f">>, <<"g">>, <<"z">>, <<"Z">>, <<"u">>,
     <<"U">>, <<"t", "d", "D">>, <<"t", "d", "m">>, <<"t", "t", "s">>,
     <<"t", "t", "m">>, <<"t", "t", "u">>, <<"t", "t", "n">>}
TableNestedFormats == {<<"+", "l">>, <<"+", "L">>, <<"+", "s">>}
TableFormats == TableLeafFormats \cup TableNestedFormats
\* Format strings of the C Data Interface outside the table, and strings
\* that are no format at all.
OtherFormats ==
    {<<"t", "s", "s", ":">>, <<"t", "s", "n", ":">>, <<"t", "D", "s">>,
     <<"t", "i", "M">>, <<"t", "i", "D">>, <<"d", ":", "9", ",", "2">>,
     <<"w", ":", "4">>, <<"+", "w", ":", "2">>, <<"+", "m">>,
     <<"+", "u", "d", ":", "0">>, <<>>, <<"N">>, <<"i", "i">>,
     <<"t", "t", "S">>, <<"t", "d">>, <<"+">>, <<"+", "l", "l">>}

FlagRange == (0 - MaxFlag)..MaxFlag

\* A schema descriptor as a foreign producer fills it in.
ForeignSchema(fmt, nm, flags, children) ==
    [format |-> Ptr(fmt \o <<NUL>>), name |-> Ptr(nm \o <<NUL>>),
     flags |-> flags, n_children |-> Len(children), children |-> children,
     release |-> TRUE,
     null_fields |-> {"metadata", "dictionary"}
                     \cup (IF children = <<>> THEN {"children"} ELSE {}),
     calls |-> 0]

ForeignLeaves(names, flagset) ==
    {ForeignSchema(f, n, fl, <<>>) :
        f \in TableLeafFormats \cup OtherFormats, n \in names, fl \in flagset}

ForeignSchemas ==
    ForeignLeaves({<<>>, <<"a">>}, FlagRange)
    \cup {ForeignSchema(f, <<"a">>, fl, <<c>>) :
            f \in TableNestedFormats, fl \in {0, 2},
            c \in ForeignLeaves({<<"i", "t">>}, {0, 2})}

(***************************************************************************)
(* SpecCodec: the codec alone. A field is exported to a schema descriptor, *)
(* or a foreign descriptor arrives; the descriptor is decoded and dropped. *)
(***************************************************************************)
NoField == Field_new(<<>>, DT("Null"), FALSE)
NoCall  == [op |-> "none", tag |-> "none", val |-> <<>>, format |-> Fail("none"),
            origin |-> "none", args |-> <<>>]

CodecIdle ==
    /\ cfield = NoField
    /\ cschema = FFI_ArrowSchema_empty
    /\ cout = NoCall
    /\ cpc = "start"

\* FFI_ArrowSchema::try_new(f)
CodecExport(f) ==
    /\ cpc = "start"
    /\ \E r \in {FFI_ArrowSchema_try_new(f)} :
           /\ cfield' = f
           /\ cschema' = r.val
           /\ cout' = [op |-> "try_new", tag |-> r.tag, val |-> r.dropped,
                       format |-> to_format(f.data_type), origin |-> "exported",
                       args |-> <<>>]
           /\ cpc' = IF r.tag = "Ok" THEN "exported" ELSE "failed"
    /\ UNCHANGED <<lifeVars, threadVars>>

\* A foreign producer hands over the schema descriptor s.
CodecImport(s) ==
    /\ cpc = "start"
    /\ cschema' = s
    /\ cout' = [NoCall EXCEPT !.op = "import", !.origin = "foreign"]
    /\ cpc' = "foreign"
    /\ UNCHANGED <<cfield, lifeVars, threadVars>>

\* to_field(&schema)
CodecToField ==
    /\ cpc \in {"exported", "foreign"}
    /\ \E r \in {to_field(cschema)} :
           cout' = [op |-> "to_field", tag |-> r.tag, val |-> r.val,
                    format |-> cout.format, origin |-> cout.origin,
                    args |-> <<>>]
    /\ cpc' = "decoded"
    /\ UNCHANGED <<cfield, cschema, lifeVars, threadVars>>

\* The descriptor value is dropped.
CodecDrop ==
    /\ cpc \in {"exported", "foreign", "decoded"}
    /\ cschema' = DropSchema(cschema)
    /\ cpc' = "dropped"
    /\ UNCHANGED <<cfield, cout, lifeVars, threadVars>>

(***************************************************************************)
(* crate::buffer::Buffer and crate::array::ArrayData, as ffi.rs uses them. *)
(* A Buffer is [mem, len, owner]: the region its pointer points to, its    *)
(* length in bytes, and who keeps the region alive: <<-1>> for an owned     *)
(* allocation, or the path of the array descriptor whose Arc the buffer    *)
(* holds (Buffer::from_unowned).                                           *)
(***************************************************************************)
Native(bytes)   == [mem |-> bytes, len |-> Len(bytes), owner |-> <<-1>>]
Some(b)         == [some |-> TRUE, buf |-> b]
None            == [some |-> FALSE, buf |-> Native(<<>>)]
\* Variant of as_ptr that points away from the buffer's region.
as_ptr_elsewhere(b) == Ptr(<<>>)
as_ptr(b)       == Ptr(b.mem)
\* Variant of Buffer_from_unowned that does not keep the owner.
Buffer_without_owner(ptr, len, owner) ==
    [mem |-> ptr.mem, len |-> len, owner |-> <<-1>>]
Buffer_from_unowned(ptr, len, owner) ==
    [mem |-> ptr.mem, len |-> len, owner |-> owner]

ArrayData_new(data_type, len, null_count, null_bit_buffer, offset, buffers, child_data) ==
    [data_type |-> data_type, len |-> len, null_count |-> null_count,
     null_bitmap |-> null_bit_buffer, offset |-> offset, buffers |-> buffers,
     child_data |-> child_data]

\* Variant of Ceil that rounds down.
Ceil_floor(value, divisor) == value \div divisor

\* bit_util::ceil(value, divisor)
Ceil(value, divisor) ==
    value \div divisor + (IF value % divisor # 0 THEN 1 ELSE 0)

\* Little-endian bytes of v in w bytes, and the value of the w bytes at
\* byte position pos (from 0) of a region. Values in the model stay below
\* 2^31, so the sign bit of an offset is never set.
RECURSIVE LE(_, _)
LE(v, w) == IF w = 0 THEN <<>> ELSE <<v % 256>> \o LE(v \div 256, w - 1)
RECURSIVE ReadLE(_, _, _)
ReadLE(mem, pos, w) ==
    IF w = 0 THEN 0 ELSE mem[pos + 1] + 256 * ReadLE(mem, pos + 1, w - 1)

\* Concatenation of a sequence of sequences.
RECURSIVE Flatten(_)
Flatten(ss) == IF ss = <<>> THEN <<>> ELSE Head(ss) \o Flatten(Tail(ss))

\* A bitmap of the bits b[0..n-1], least-significant bit first.
BitWeight(i) == CASE i = 0 -> 1 [] i = 1 -> 2 [] i = 2 -> 4 [] i = 3 -> 8
                  [] i = 4 -> 16 [] i = 5 -> 32 [] i = 6 -> 64 [] OTHER -> 128
RECURSIVE SumBits(_, _, _)
SumBits(bit, lo, hi) ==
    IF lo > hi THEN 0
    ELSE (IF bit[lo] THEN BitWeight(lo % 8) ELSE 0) + SumBits(bit, lo + 1, hi)
PackBits(bit, n) ==
    [j \in 1..Ceil(n, 8) |->
        SumBits(bit, 8 * (j - 1), IF 8 * j - 1 < n - 1 THEN 8 * j - 1 ELSE n - 1)]

(***************************************************************************)
(* Well-formed source arrays. MkData(dt, n, o, nulls) is an array of type  *)
(* dt with n elements at logical offset o, whose buffers hold exactly the  *)
(* o + n elements the Arrow format asks for; with nulls, every second      *)
(* element is null. Element j of a fixed-width array is j + 1, element j   *)
(* of a variable-width or list array has (j mod 2) + 1 bytes or items.     *)
(***************************************************************************)
\* The native width in bits of a fixed-width type (crate::datatypes).
NativeBits(data_type) ==
    CASE data_type.k = "Boolean"                                -> 1
      [] data_type.k \in {"Int8", "UInt8"}                      -> 8
      [] data_type.k \in {"Int16", "UInt16", "Float16"}         -> 16
      [] data_type.k \in {"Int32", "UInt32", "Float32", "Date32", "Time32"}
                                                                -> 32
      [] OTHER                                                  -> 64
\* The width in bytes of the offsets of a variable-width or list type.
OffsetBytes(data_type) ==
    IF data_type.k \in {"LargeUtf8", "LargeBinary", "LargeList"} THEN 8 ELSE 4

IsValid(j)  == j % 2 = 0
ValidBits(n) == [j \in 0..(n - 1) |-> IsValid(j)]
RECURSIVE EndOf(_)
EndOf(j)    == IF j = 0 THEN 0 ELSE EndOf(j - 1) + ((j - 1) % 2) + 1

RECURSIVE MkData(_, _, _, _)
MkData(data_type, n, o, nulls) ==
    LET t == o + n
        k == data_type.k
        validity == IF nulls /\ k # "Null"
                    THEN Some(Native(PackBits(ValidBits(t), t))) ELSE None
        null_count == IF validity.some
                      THEN Cardinality({j \in o..(t - 1) : ~IsValid(j)}) ELSE 0
        offsets == Native(Flatten([j \in 1..(t + 1) |->
                                      LE(EndOf(j - 1), OffsetBytes(data_type))]))
        mk(buffers, child_data) ==
            ArrayData_new(data_type, n, null_count, validity, o, buffers,
                          child_data)
    IN  CASE k = "Null" -> mk(<<>>, <<>>)
          [] k = "Boolean" -> mk(<<Native(PackBits(ValidBits(t), t))>>, <<>>)
          [] k \in {"Utf8", "Binary", "LargeUtf8", "LargeBinary"} ->
                mk(<<offsets, Native([b \in 1..EndOf(t) |-> 96 + b])>>, <<>>)
          [] k \in {"List", "LargeList"} ->
                mk(<<offsets>>,
                   <<MkData(data_type.fields[1].data_type, EndOf(t), 0,
                            data_type.fields[1].nullable)>>)
          [] k = "Struct" ->
                mk(<<>>, [i \in DOMAIN data_type.fields |->
                            MkData(data_type.fields[i].data_type, t, 0,
                                   data_type.fields[i].nullable)])
          [] OTHER ->
                mk(<<Native(Flatten([j \in 1..t |->
                                LE(j, NativeBits(data_type) \div 8)]))>>, <<>>)

(***************************************************************************)
(* FFI_ArrowArray: the array descriptor.                                   *)
(*   length, null_count, offset, n_buffers, n_children   i64               *)
(*   buffers       pointer to the vector of buffer pointers: [null, vec]   *)
(*   children      the children vector: the child records it points to     *)
(*   release       TRUE iff the release callback pointer is non-null       *)
(*   private_data  PrivateData.buffers: the buffer handles retained        *)
(*   null_fields   which of the pointers children, dictionary and          *)
(*                 private_data are null                                   *)
(*   calls         (ghost) how often the release callback has been called  *)
(***************************************************************************)
FFI_ArrowArray_empty ==
    [length |-> 0, null_count |-> 0, offset |-> 0, n_buffers |-> 0,
     n_children |-> 0, buffers |-> [null |-> TRUE, vec |-> <<>>],
     children |-> <<>>, release |-> FALSE, private_data |-> <<>>,
     null_fields |-> {"children", "dictionary", "private_data"},
     calls |-> 0]

\* FFI_ArrowArray::new
RECURSIVE FFI_ArrowArray_new(_)
FFI_ArrowArray_new(data) ==
    LET buffers == <<data.null_bitmap>> \o
                   [i \in DOMAIN data.buffers |-> Some(data.buffers[i])]
        buffers_ptr == [i \in DOMAIN buffers |->
                          IF buffers[i].some THEN as_ptr(buffers[i].buf)
                          ELSE NullPtr]
        children == [i \in DOMAIN data.child_data |->
                        FFI_ArrowArray_new(data.child_data[i])]
    IN  [length       |-> data.len,
         null_count   |-> data.null_count,
         offset       |-> data.offset,
         n_buffers    |-> Len(buffers),
         n_children   |-> Len(children),
         buffers      |-> [null |-> FALSE, vec |-> buffers_ptr],
         children     |-> children,
         release      |-> TRUE,
         private_data |-> buffers,
         null_fields  |-> {"dictionary"},
         calls        |-> 0]

\* Drop for FFI_ArrowArray and release_array, which drops the private data
\* (the retained buffers and the buffers vector, left dangling) and every
\* child box.
RECURSIVE DropArray(_), release_array(_)
release_array(array) ==
    [array EXCEPT !.buffers      = [null |-> FALSE, vec |-> <<>>],
                  !.children     = [i \in DOMAIN @ |-> DropArray(@[i])],
                  !.private_data = <<>>,
                  !.release      = FALSE,
                  !.calls        = @ + 1]
\* Variant of DropArray that calls release without testing it.
DropArray_untested(array) == release_array(array)
DropArray(array) ==
    IF array.release THEN release_array(array) ELSE array

(***************************************************************************)
(* The buffer-shape oracle.                                                *)
(***************************************************************************)
PrimitiveKinds ==
    {"Boolean", "UInt8", "UInt16", "UInt32", "UInt64", "Int8", "Int16",
     "Int32", "Date32", "Time32", "Int64", "Date64", "Time64", "Float32",
     "Float64"}
SmallVarKinds == {"Utf8", "Binary", "List"}
LargeVarKinds == {"LargeUtf8", "LargeBinary", "LargeList"}

\* bit_width(data_type, i)
bit_width(data_type, i) ==
    LET k == data_type.k
    IN  CASE i = 0 -> Ok(1)
          [] i = 1 /\ k = "Boolean"                      -> Ok(1)
          [] i = 1 /\ k \in {"UInt8", "Int8"}            -> Ok(8)
          [] i = 1 /\ k \in {"UInt16", "Int16"}          -> Ok(16)
          [] i = 1 /\ k \in {"UInt32", "Int32", "Date32", "Time32",
                             "Float32"}                  -> Ok(32)
          [] i = 1 /\ k \in {"UInt64", "Int64", "Date64", "Time64",
                             "Float64"}                  -> Ok(64)
          [] i > 1 /\ k \in PrimitiveKinds               -> Fail("Err")
          [] i = 1 /\ k \in SmallVarKinds                -> Ok(32)
          [] i = 2 /\ k \in SmallVarKinds                -> Ok(8)
          [] i > 2 /\ k \in SmallVarKinds                -> Fail("Err")
          [] i = 1 /\ k \in LargeVarKinds                -> Ok(64)
          [] i = 2 /\ k \in LargeVarKinds                -> Ok(8)
          [] i > 2 /\ k \in LargeVarKinds                -> Fail("Err")
          [] OTHER                                       -> Fail("Err")

\* bit_width(&t, i) is called on its own.
CodecBitWidth(t, i) ==
    /\ cpc = "start"
    /\ \E r \in {bit_width(t, i)} :
           cout' = [NoCall EXCEPT !.op = "bit_width", !.tag = r.tag,
                                  !.val = r.val, !.args = <<i>>]
    /\ cfield' = Field_new(<<>>, t, FALSE)
    /\ cpc' = "measured"
    /\ UNCHANGED <<cschema, lifeVars, threadVars>>

(***************************************************************************)
(* ArrowArrayRef: a view [array, schema, owner] of a descriptor pair. The  *)
(* owner is the Arc handle the view passes on to every buffer it creates,  *)
(* named by the path (child indices from the root) of the array record the *)
(* Arc points to: <<>> is the top-level descriptor.                        *)
(***************************************************************************)
View(array, schema, owner) ==
    [array |-> array, schema |-> schema, owner |-> owner]

\* ArrowArrayRef::data_type
data_type(view) ==
    Bind(to_field(view.schema), LAMBDA f :
        IF f.tag # "Ok" THEN Fail(f.tag) ELSE Ok(f.val.data_type))

\* Variant of LastOffset that reads the first entry of the offsets.
LastOffset_first(array, len, width) ==
    IF array.buffers.null \/ Len(array.buffers.vec) < 2 THEN Fail("UB")
    ELSE Ok(ReadLE(array.buffers.vec[2].mem, 0, width))

\* The last offset, as buffer_len reads it: entry `len / width - 1` of the
\* region that entry 1 of the buffers vector points to.
LastOffset(array, len, width) ==
    Bind(<<array.buffers, len \div width - 1>>, LAMBDA a :
        IF a[1].null \/ Len(a[1].vec) < 2 THEN Fail("UB")
        ELSE IF \/ a[1].vec[2].null
                \/ a[2] < 0
                \/ (a[2] + 1) * width > Len(a[1].vec[2].mem)
        THEN Fail("UB")
        ELSE Ok(ReadLE(a[1].vec[2].mem, a[2] * width, width)))

\* ArrowArrayRef::buffer_len(i)
buffer_len(view, i) ==
    LET offsets_len(dt) ==
            Bind(bit_width(dt, 1), LAMBDA bits :
                IF bits.tag # "Ok" THEN Fail(bits.tag)
                ELSE Ok((view.array.length + 1) * (bits.val \div 8)))
        last_offset(dt, width) ==
            Bind(offsets_len(dt), LAMBDA len :
                IF len.tag # "Ok" THEN len
                ELSE LastOffset(view.array, len.val, width))
    IN  Bind(data_type(view), LAMBDA dt :
            IF dt.tag # "Ok" THEN Fail(dt.tag)
            ELSE IF i = 1 /\ dt.val.k \in SmallVarKinds \cup LargeVarKinds
            THEN offsets_len(dt.val)
            ELSE IF i = 2 /\ dt.val.k \in SmallVarKinds
            THEN last_offset(dt.val, 4)
            ELSE IF i = 2 /\ dt.val.k \in LargeVarKinds
            THEN last_offset(dt.val, 8)
            ELSE Bind(bit_width(dt.val, i), LAMBDA bits :
                    IF bits.tag # "Ok" THEN Fail(bits.tag)
                    ELSE Ok(Ceil(view.array.length * bits.val, 8))))

\* create_buffer(owner, array, index, len): Ok(Option<Buffer>)
create_buffer(owner, array, index, len) ==
    Bind(array, LAMBDA a :
        IF a.buffers.null THEN Ok(None)
        ELSE IF ~IndexBelow(index, a.n_buffers) THEN Fail("Panic")
        ELSE IF index >= Len(a.buffers.vec) THEN Fail("UB")
        ELSE IF a.buffers.vec[index + 1].null THEN Ok(None)
        ELSE Ok(Some(Buffer_from_unowned(a.buffers.vec[index + 1], len, owner))))

\* Variant of ChildOwner that hands the child view a handle on the child.
ChildOwner_child(owner, index) == owner \o <<index>>

\* The handle create_child gives the child view: the owner it was passed.
ChildOwner(owner, index) == owner

\* create_child(owner, array, schema, index), index counted from 0.
create_child(owner, array, schema, index) ==
    Bind(<<array, schema>>, LAMBDA p :
        IF ~IndexBelow(index, p[1].n_children) THEN Fail("Panic")
        ELSE IF "children" \in p[1].null_fields THEN Fail("Panic")
        ELSE IF index >= Len(p[1].children) \/ index >= Len(p[2].children)
        THEN Fail("UB")
        ELSE Ok(View(p[1].children[index + 1], p[2].children[index + 1],
                     ChildOwner(owner, index))))

\* ArrowArrayRef::buffers
buffers(view) ==
    LET item(index) ==
            Bind(buffer_len(view, index), LAMBDA len :
                IF len.tag # "Ok" THEN Fail(len.tag)
                ELSE Bind(create_buffer(view.owner, view.array, index, len.val),
                          LAMBDA b :
                        IF b.tag # "Ok" THEN Fail(b.tag)
                        ELSE IF ~b.val.some THEN Fail("Err")
                        ELSE Ok(b.val.buf)))
    IN  Collect([index \in 1..(view.array.n_buffers - 1) |-> item(index)])

\* ArrowArrayRef::null_bit_buffer
null_bit_buffer(view) ==
    create_buffer(view.owner, view.array, 0, Ceil(view.array.length, 8))

\* ArrowArrayRef::child
ViewChild(view, index) ==
    create_child(view.owner, view.array, view.schema, index)

\* ArrowArrayRef::to_data
RECURSIVE to_data(_), ChildData(_, _)
ChildData(view, index) ==
    Bind(ViewChild(view, index), LAMBDA c :
        IF c.tag # "Ok" THEN Fail(c.tag)
        ELSE Bind(to_data(c.val), LAMBDA d :
                IF d.tag = "Err" THEN Fail("Panic")   \* unwrap()
                ELSE d))
to_data(view) ==
    LET \* (0..n_children as usize): a negative count runs off the vector
        n == IF view.array.n_children < 0 THEN Len(view.array.children) + 1
             ELSE view.array.n_children
    IN  Bind(data_type(view), LAMBDA dt :
            IF dt.tag # "Ok" THEN Fail(dt.tag) ELSE
        Bind(buffers(view), LAMBDA bufs :
            IF bufs.tag # "Ok" THEN Fail(bufs.tag) ELSE
        Bind(null_bit_buffer(view), LAMBDA nb :
            IF nb.tag # "Ok" THEN Fail(nb.tag) ELSE
        Bind(Collect([i \in 1..n |-> ChildData(view, i - 1)]), LAMBDA kids :
            IF kids.tag # "Ok" THEN Fail(kids.tag)
            ELSE Ok(ArrayData_new(dt.val, view.array.length,
                                  view.array.null_count, nb.val,
                                  view.array.offset, bufs.val, kids.val))))))

(***************************************************************************)
(* Arc<T>: a strong count and the value. Dropping the last handle drops    *)
(* the value, which calls its release callback if that is non-null.        *)
(***************************************************************************)
Arc_new(v)       == [strong |-> 1, val |-> v]
NoArrayArc       == [strong |-> 0, val |-> FFI_ArrowArray_empty]
NoSchemaArc      == [strong |-> 0, val |-> FFI_ArrowSchema_empty]
DropArrayArc(a)  == IF a.strong = 1 THEN [strong |-> 0, val |-> DropArray(a.val)]
                    ELSE [a EXCEPT !.strong = @ - 1]
DropSchemaArc(a) == IF a.strong = 1 THEN [strong |-> 0, val |-> DropSchema(a.val)]
                    ELSE [a EXCEPT !.strong = @ - 1]

\* The imported buffers of an ArrayData tree: where each sits (the path of
\* its array and its index in the C Data Interface) and the owner it holds.
RECURSIVE Handles(_, _)
Handles(data, path) ==
    (IF data.null_bitmap.some
     THEN {[at |-> path, index |-> 0, owner |-> data.null_bitmap.buf.owner]}
     ELSE {})
    \cup {[at |-> path, index |-> i, owner |-> data.buffers[i].owner] :
            i \in DOMAIN data.buffers}
    \cup UNION {Handles(data.child_data[i], path \o <<i - 1>>) :
                  i \in DOMAIN data.child_data}

(***************************************************************************)
(* Source arrays of the life-cycle specification.                          *)
(***************************************************************************)
Item(t, b) == Field_new(<<"i", "t", "e", "m">>, t, b)
LifeTypes ==
    {DT("Int32"), DT("Utf8"), DT("Null"), DT("Float16"),
     DTU("Timestamp", "Second"),
     DTF("List", <<Item(DT("Int32"), FALSE)>>),
     DTF("Struct", <<FirstField, Item(DT("Int32"), TRUE)>>),
     DTF("LargeList", <<Item(DTF("List", <<Item(DT("Int32"), TRUE)>>), TRUE)>>),
     DTF("Struct", <<FirstField, Item(DTU("Timestamp", "Second"), TRUE)>>)}
LifeSources ==
    {MkData(t, MaxLen, 0, nulls) : t \in LifeTypes, nulls \in BOOLEAN}

NoData   == MkData(DT("Null"), 0, 0, FALSE)
NoResult == [op |-> "none", tag |-> "none", val |-> <<>>, args |-> <<>>]

LifeIdle ==
    /\ source = NoData
    /\ built = "none"
    /\ array_arc = NoArrayArc
    /\ schema_arc = NoSchemaArc
    /\ bridge = "none"
    /\ live = {}
    /\ imports = 0
    /\ result = NoResult

(***************************************************************************)
(* The operations on the bridge.                                           *)
(***************************************************************************)
\* ArrowArray::try_new(data)
TryNew(data) ==
    /\ bridge = "none"
    /\ \E array \in {Arc_new(FFI_ArrowArray_new(data))},
          schema \in {FFI_ArrowSchema_try_new(
                         Field_new(<<>>, data.data_type, data.null_count # 0))} :
           /\ source' = data
           /\ built' = "try_new"
           /\ result' = [op |-> "try_new", tag |-> schema.tag,
                         val |-> schema.dropped, args |-> <<>>]
           /\ IF schema.tag = "Ok"
              THEN /\ array_arc' = array
                   /\ schema_arc' = Arc_new(schema.val)
                   /\ bridge' = "live"
              ELSE \* `?`: the array handle goes out of scope
                   /\ array_arc' = DropArrayArc(array)
                   /\ schema_arc' = NoSchemaArc
                   /\ bridge' = "failed"
    /\ UNCHANGED <<live, imports, codecVars, threadVars>>

\* ArrowArray::empty()
Empty ==
    /\ bridge = "none"
    /\ array_arc' = Arc_new(FFI_ArrowArray_empty)
    /\ schema_arc' = Arc_new(FFI_ArrowSchema_empty)
    /\ bridge' = "live"
    /\ result' = [NoResult EXCEPT !.op = "empty", !.tag = "Ok"]
    /\ built' = "empty"
    /\ UNCHANGED <<source, live, imports, codecVars, threadVars>>

\* ArrowArrayRef::to_data on the bridge. The buffers of the ArrayData it
\* returns are alive from now on, each holding its owner handle.
ToData ==
    /\ bridge = "live"
    /\ imports < MaxImports
    /\ \E r \in {to_data(View(array_arc.val, schema_arc.val, <<>>))} :
       \E new \in {IF r.tag # "Ok" THEN {}
                   ELSE {[imp |-> imports + 1, at |-> h.at, index |-> h.index,
                          owner |-> h.owner] : h \in Handles(r.val, <<>>)}} :
           /\ live' = live \cup new
           /\ array_arc' = [array_arc EXCEPT !.strong =
                               @ + Cardinality({h \in new : h.owner = <<>>})]
           /\ result' = [op |-> "to_data", tag |-> r.tag, val |-> r.val,
                         args |-> <<>>]
    /\ imports' = imports + 1
    /\ UNCHANGED <<source, built, schema_arc, bridge, codecVars, threadVars>>

\* ArrowArrayRef::buffer_len(i) on the bridge.
BufferLen(i) ==
    /\ bridge = "live"
    /\ \E r \in {buffer_len(View(array_arc.val, schema_arc.val, <<>>), i)} :
           result' = [op |-> "buffer_len", tag |-> r.tag, val |-> r.val,
                      args |-> <<i>>]
    /\ UNCHANGED <<source, built, array_arc, schema_arc, bridge, live, imports,
                   codecVars, threadVars>>

\* The ArrowArray value is dropped: one handle on each descriptor.
DropBridge ==
    /\ bridge = "live"
    /\ array_arc' = DropArrayArc(array_arc)
    /\ schema_arc' = DropSchemaArc(schema_arc)
    /\ bridge' = "dropped"
    /\ UNCHANGED <<source, built, live, imports, result, codecVars, threadVars>>

\* One imported buffer is dropped: the owner handle it holds.
DropBuffer(h) ==
    /\ h \in live
    /\ live' = live \ {h}
    /\ array_arc' = IF h.owner = <<>> THEN DropArrayArc(array_arc) ELSE array_arc
    /\ UNCHANGED <<source, built, schema_arc, bridge, imports, result, codecVars,
                   threadVars>>

\* The ArrayData a to_data call returned is dropped: all its buffers.
RECURSIVE DropHandles(_, _)
DropHandles(arc, n) == IF n = 0 THEN arc ELSE DropHandles(DropArrayArc(arc), n - 1)
DropData(i) ==
    /\ \E h \in live : h.imp = i
    /\ live' = {h \in live : h.imp # i}
    /\ array_arc' = DropHandles(array_arc,
                       Cardinality({h \in live : h.imp = i /\ h.owner = <<>>}))
    /\ UNCHANGED <<source, built, schema_arc, bridge, imports, result, codecVars,
                   threadVars>>

\* Variant of Arc_into_raw that gives up the handle it turns into a pointer.
Arc_into_raw_dropping(a) == [a EXCEPT !.strong = @ - 1]

\* Arc::into_raw: the handle becomes a raw pointer; the strong count stays.
Arc_into_raw(a) == a

\* ArrowArray::into_raw(this)
IntoRaw ==
    /\ bridge = "live"
    /\ bridge' = "raw"
    /\ array_arc' = Arc_into_raw(array_arc)
    /\ schema_arc' = Arc_into_raw(schema_arc)
    /\ result' = [NoResult EXCEPT !.op = "into_raw", !.tag = "Ok"]
    /\ UNCHANGED <<source, built, live, imports, codecVars, threadVars>>

\* Variant of try_from_raw that tests the array pointer only.
try_from_raw_array_only(array, schema) ==
    IF array.null THEN Fail("Err") ELSE Ok(<<array, schema>>)

\* ArrowArray::try_from_raw(array, schema): Arc::from_raw of both pointers
\* unless one of them is null.
try_from_raw(array, schema) ==
    IF array.null \/ schema.null THEN Fail("Err") ELSE Ok(<<array, schema>>)

\* try_from_raw called by the holder of the two raw pointers; a and s say
\* whether it passes the pointer it holds or null.
TryFromRaw(a, s) ==
    /\ bridge = "raw"
    /\ \E r \in {try_from_raw(IF a THEN Ptr(<<"array">>) ELSE NullPtr,
                               IF s THEN Ptr(<<"schema">>) ELSE NullPtr)} :
           /\ result' = [op |-> "try_from_raw", tag |-> r.tag, val |-> <<>>,
                         args |-> <<a, s>>]
           /\ bridge' = IF r.tag = "Ok" THEN "live" ELSE "raw"
    /\ UNCHANGED <<source, built, array_arc, schema_arc, live, imports,
                   codecVars, threadVars>>

\* The holder of the raw pointers calls a descriptor's release callback, as
\* the C Data Interface lets the owner of a descriptor do once it is done
\* with the data (it owns the descriptor alone: no imported buffer is left).
ConsumerRelease(which) ==
    /\ bridge = "raw"
    /\ live = {}
    /\ \/ /\ which = "array"
          /\ array_arc.val.release
          /\ array_arc' = [array_arc EXCEPT !.val = release_array(@)]
          /\ UNCHANGED schema_arc
       \/ /\ which = "schema"
          /\ schema_arc.val.release
          /\ schema_arc' = [schema_arc EXCEPT !.val = release_schema(@)]
          /\ UNCHANGED array_arc
    /\ UNCHANGED <<source, built, bridge, live, imports, result, codecVars,
                   threadVars>>

ThreadIdle ==
    /\ tarc = NoArrayArc
    /\ tpc = <<>>
    /\ tkind = <<>>
    /\ tlog = <<>>

Init == LifeIdle /\ CodecIdle /\ ThreadIdle

Next ==
    \/ \E d \in LifeSources : TryNew(d)
    \/ Empty
    \/ ToData
    \/ DropBridge
    \/ \E h \in live : DropBuffer(h)
    \/ IntoRaw
    \/ \E a, s \in BOOLEAN : TryFromRaw(a, s)
    \/ \E which \in {"array", "schema"} : ConsumerRelease(which)

Spec == Init /\ [][Next]_vars

(***************************************************************************)
(* Import of descriptors that a foreign producer filled in: the bridge of  *)
(* ArrowArray::empty() is turned into its two raw pointers, the producer   *)
(* writes a descriptor pair through them, and try_from_raw makes a bridge  *)
(* of the pointers again. The producer exports the data d as this module   *)
(* would, except for one deviation in the root descriptor or in its first  *)
(* child.                                                                  *)
(***************************************************************************)
ImportTypes ==
    {DT("Int32"), DT("Utf8"),
     DTF("List", <<Item(DT("Int32"), TRUE)>>),
     DTF("LargeList", <<Item(DT("Utf8"), TRUE)>>),
     DTF("Struct", <<FirstField, Item(DT("Int32"), TRUE)>>)}
ImportSources ==
    {MkData(t, MaxLen, 0, nulls) : t \in ImportTypes, nulls \in BOOLEAN}

\* The pair of descriptors a well-behaved producer fills in for the data d.
ExportedPair(d) ==
    [array  |-> FFI_ArrowArray_new(d),
     schema |-> FFI_ArrowSchema_try_new(
                    Field_new(<<>>, d.data_type, d.null_count # 0)).val]

\* An array descriptor with one buffer and no children, and a schema
\* descriptor for it: what a producer adds as a child too many.
ExtraPair == ExportedPair(MkData(DT("Int32"), MaxLen, 0, FALSE))

\* The array descriptor a with one deviation: a buffer pointer left null,
\* a buffer too many, a child too few or a child too many.
ArrayDeviations(a) ==
    {[a EXCEPT !.buffers.vec[j] = NullPtr] : j \in DOMAIN a.buffers.vec}
    \cup {[a EXCEPT !.n_buffers = @ + 1,
                    !.buffers.vec = Append(@, Ptr(<<0>>))]}
    \cup {[a EXCEPT !.n_children = @ + 1,
                    !.children = Append(@, ExtraPair.array),
                    !.null_fields = @ \ {"children"}]}
    \cup (IF a.children = <<>> THEN {}
          ELSE {[a EXCEPT !.n_children = @ - 1,
                          !.children = SubSeq(@, 1, Len(@) - 1)]})

\* The schema descriptor s with one deviation: a format outside the table,
\* a child too few or a child too many.
SchemaDeviations(s) ==
    {[s EXCEPT !.format = Ptr(<<"t", "s", "s", ":", NUL>>)]}
    \cup {[s EXCEPT !.n_children = @ + 1,
                    !.children = Append(@, ExtraPair.schema),
                    !.null_fields = @ \ {"children"}]}
    \cup (IF s.children = <<>> THEN {}
          ELSE {[s EXCEPT !.n_children = @ - 1,
                          !.children = SubSeq(@, 1, Len(@) - 1)]})

\* The descriptor pairs a producer may fill in for the data d.
ForeignPairs(d) ==
    LET p == ExportedPair(d)
    IN  {p}
        \cup {[p EXCEPT !.array = a] : a \in ArrayDeviations(p.array)}
        \cup {[p EXCEPT !.schema = s] : s \in SchemaDeviations(p.schema)}
        \cup (IF p.array.children = <<>> THEN {}
              ELSE {[p EXCEPT !.array.children[1] = a] :
                       a \in ArrayDeviations(p.array.children[1])}
                   \cup {[p EXCEPT !.schema.children[1] = s] :
                            s \in SchemaDeviations(p.schema.children[1])})

\* The producer writes the pair p, its export of the data d, through the
\* two raw pointers of an empty bridge.
Fill(d, p) ==
    /\ built = "empty"
    /\ bridge = "raw"
    /\ source' = d
    /\ built' = "foreign"
    /\ array_arc' = [array_arc EXCEPT !.val = p.array]
    /\ schema_arc' = [schema_arc EXCEPT !.val = p.schema]
    /\ result' = [NoResult EXCEPT !.op = "fill", !.tag = "Ok"]
    /\ UNCHANGED <<bridge, live, imports, codecVars, threadVars>>

ImportNext ==
    \/ Empty
    \/ IntoRaw
    \/ \E d \in ImportSources : \E p \in ForeignPairs(d) : Fill(d, p)
    \/ \E a, s \in BOOLEAN : TryFromRaw(a, s)
    \/ ToData
    \/ DropBridge
    \/ \E h \in live : DropBuffer(h)

SpecImport == Init /\ [][ImportNext]_vars

\* The data types bit_width is asked about.
BitWidthTypes == TableLeafTypes \cup OtherLeafTypes \cup NestedTypes(1)

CodecNext ==
    \/ \E f \in CodecFields : CodecExport(f)
    \/ \E s \in ForeignSchemas : CodecImport(s)
    \/ CodecToField
    \/ CodecDrop
    \/ \E t \in BitWidthTypes : \E i \in 0..MaxIndex : CodecBitWidth(t, i)

SpecCodec == Init /\ [][CodecNext]_vars

(***************************************************************************)
(* SpecShape: export and import over the whole catalogue of supported      *)
(* types, every length 0..MaxLen and offset 0..MaxOffset, with and without *)
(* nulls.                                                                  *)
(***************************************************************************)
ShapeNested ==
    {DTF("List", <<Item(DT("Int32"), FALSE)>>),
     DTF("List", <<Item(DT("Utf8"), TRUE)>>),
     DTF("LargeList", <<Item(DT("Int64"), TRUE)>>),
     DTF("LargeList", <<Item(DTF("List", <<Item(DT("Boolean"), TRUE)>>), TRUE)>>),
     DTF("Struct", <<>>),
     DTF("Struct", <<FirstField, Item(DT("Int32"), TRUE)>>),
     DTF("Struct", <<FirstField,
                     Item(DTF("LargeList", <<Item(DT("Float16"), TRUE)>>),
                          FALSE)>>),
     DTF("List", <<Item(DTF("Struct", <<FirstField>>), TRUE)>>)}
ShapeTypes == TableLeafTypes \cup ShapeNested
ShapeSources ==
    {MkData(t, n, o, nulls) :
        t \in ShapeTypes, n \in 0..MaxLen, o \in 0..MaxOffset, nulls \in BOOLEAN}

ShapeNext ==
    \/ \E d \in ShapeSources : TryNew(d)
    \/ \E i \in 0..MaxIndex : BufferLen(i)
    \/ ToData
    \/ DropBridge
    \/ \E i \in 1..MaxImports : DropData(i)

SpecShape == Init /\ [][ShapeNext]_vars

(***************************************************************************)
(* SpecThreads: threads that each drop one handle on a shared descriptor.  *)
(* Dropping an Arc handle is an atomic decrement of the strong count; the  *)
(* thread whose decrement found the count at 1 then drops the value.       *)
(***************************************************************************)
\* Variant of WasLast that also takes the last but one for the last.
WasLast_early(strong) == strong <= 2

\* Arc::drop: `fetch_sub(1, Release) != 1` returns early.
WasLast(strong) == strong = 1

ThreadSources ==
    {MkData(t, 1, 0, TRUE) :
        t \in {DT("Int32"), DT("Utf8"), DTF("List", <<Item(DT("Int32"), TRUE)>>)}}

\* n threads get one handle each on the descriptor exported from d: the
\* bridge's handle (if the bridge is still there) and imported buffers.
Share(n, d, withBridge) ==
    /\ tpc = <<>>
    /\ tarc' = [strong |-> n, val |-> FFI_ArrowArray_new(d)]
    /\ tpc' = [t \in 1..n |-> "holding"]
    /\ tkind' = [t \in 1..n |-> IF t = 1 /\ withBridge THEN "bridge"
                                 ELSE "buffer"]
    /\ tlog' = <<>>
    /\ UNCHANGED <<lifeVars, codecVars>>

\* Thread t drops its handle: the decrement.
Decrement(t) ==
    /\ t \in DOMAIN tpc
    /\ tpc[t] = "holding"
    /\ tarc' = [tarc EXCEPT !.strong = @ - 1]
    /\ tpc' = [tpc EXCEPT ![t] = IF WasLast(tarc.strong) THEN "last" ELSE "done"]
    /\ tlog' = Append(tlog, <<"dec", t>>)
    /\ UNCHANGED <<tkind, lifeVars, codecVars>>

\* Thread t, whose decrement was the last, drops the descriptor value.
DropValue(t) ==
    /\ t \in DOMAIN tpc
    /\ tpc[t] = "last"
    /\ tarc' = [tarc EXCEPT !.val = DropArray(@)]
    /\ tpc' = [tpc EXCEPT ![t] = "done"]
    /\ tlog' = IF tarc.val.release THEN Append(tlog, <<"release", t>>) ELSE tlog
    /\ UNCHANGED <<tkind, lifeVars, codecVars>>

ThreadNext ==
    \/ \E n \in 1..MaxThreads, d \in ThreadSources, withBridge \in BOOLEAN :
          Share(n, d, withBridge)
    \/ \E t \in 1..MaxThreads : Decrement(t)
    \/ \E t \in 1..MaxThreads : DropValue(t)

SpecThreads == Init /\ [][ThreadNext]_vars

(***************************************************************************)
(* Properties.                                                             *)
(***************************************************************************)
\* The records of a descriptor tree: the root and all its descendants.
RECURSIVE Records(_)
Records(d) == {d} \cup UNION {Records(d.children[i]) : i \in DOMAIN d.children}

AllReleasedOnce(d) == \A r \in Records(d) : ~r.release /\ r.calls = 1

\* The logical content of an ArrayData: per element of its window
\* offset..offset+len-1 the validity bit and the value as its buffers give
\* them, -1 where the buffer ends before the element.
BitAt(b, j) ==
    IF j \div 8 >= b.len \/ j \div 8 >= Len(b.mem) THEN -1
    ELSE (b.mem[j \div 8 + 1] \div BitWeight(j % 8)) % 2
Slot(b, pos, w) ==
    IF (pos + 1) * w > b.len \/ (pos + 1) * w > Len(b.mem) THEN -1
    ELSE ReadLE(b.mem, pos * w, w)
ByteAt(b, pos) ==
    IF pos >= b.len \/ pos >= Len(b.mem) THEN -1 ELSE b.mem[pos + 1]

RECURSIVE Logical(_)
Logical(d) ==
    LET k == d.data_type.k
        at(j) == d.offset + j - 1
        ends == [j \in 1..(d.len + 1) |->
                    Slot(d.buffers[1], at(j), OffsetBytes(d.data_type))]
        values ==
            CASE k \in {"Null", "Struct"} -> <<>>
              [] k = "Boolean" -> [j \in 1..d.len |-> BitAt(d.buffers[1], at(j))]
              [] k \in {"List", "LargeList"} -> ends
              [] k \in {"Utf8", "Binary", "LargeUtf8", "LargeBinary"} ->
                    ends \o (IF -1 \in Range(ends) THEN <<-1>>
                             ELSE [b \in 1..(ends[d.len + 1] - ends[1]) |->
                                      ByteAt(d.buffers[2], ends[1] + b - 1)])
              [] OTHER -> [j \in 1..d.len |->
                             Slot(d.buffers[1], at(j),
                                  NativeBits(d.data_type) \div 8)]
    IN  [data_type  |-> d.data_type,
         len        |-> d.len,
         offset     |-> d.offset,
         null_count |-> d.null_count,
         validity   |-> IF d.null_bitmap.some
                        THEN [j \in 1..d.len |-> BitAt(d.null_bitmap.buf, at(j))]
                        ELSE [j \in 1..d.len |-> 1],
         values     |-> values,
         children   |-> [i \in DOMAIN d.child_data |-> Logical(d.child_data[i])]]

DataEq(a, b) == a.data_type = b.data_type /\ Logical(a) = Logical(b)

\* C1: for every supported source array (every type of the format table,
\* nested or not, with or without nulls, at any logical offset), to_data on
\* the bridge that try_new built from it returns Ok with an ArrayData equal
\* to the source element-wise.
C1_RoundTrip ==
    result.op = "to_data" =>
        /\ result.tag = "Ok"
        /\ DataEq(result.val, source)

\* A field whose name and nested names hold no NUL byte.
RECURSIVE NulFree(_)
NulFree(f) ==
    /\ NUL \notin Range(f.name)
    /\ \A i \in DOMAIN f.data_type.fields : NulFree(f.data_type.fields[i])
\* A type of the format table, List/LargeList/Struct of such types included.
RECURSIVE Supported(_)
Supported(t) ==
    \/ t \in TableLeafTypes
    \/ /\ t.k \in {"List", "LargeList", "Struct"}
       /\ \A i \in DOMAIN t.fields : Supported(t.fields[i].data_type)

\* C2 (amended): for every supported data type, every nullable flag and
\* every field name without a NUL byte (nested names included), try_new
\* returns Ok and to_field of the descriptor returns the field itself.
C2_FormatRoundTrip ==
    /\ (cout.op = "try_new" /\ Supported(cfield.data_type) /\ NulFree(cfield))
          => cout.tag = "Ok"
    /\ (cpc = "decoded" /\ cout.origin = "exported")
          => (cout.tag = "Ok" /\ cout.val = cfield)

\* C2 as stated: for every field name, NUL bytes or not, try_new of a field
\* of supported type returns Ok.
C2_EveryName ==
    (cout.op = "try_new" /\ Supported(cfield.data_type)) => cout.tag = "Ok"

C2_Witness ==
    /\ cpc = "decoded"
    /\ cout.origin = "exported"
    /\ cout.tag = "Ok"
    /\ cfield.nullable
    /\ cfield.name = <<"a">>
    /\ cfield.data_type.k = "Struct"
    /\ Len(cfield.data_type.fields) = 2
    /\ cfield.data_type.fields[2].data_type.k = "LargeList"
    /\ ~cfield.data_type.fields[2].nullable

\* C3 (amended): no release callback is ever invoked twice; once a bridge
\* built by try_new has been dropped every schema descriptor has been
\* released exactly once and has release = null, and once the bridge and
\* every buffer imported from it have been dropped the same holds of every
\* array descriptor.
C3_ReleaseOneShot ==
    /\ \A r \in Records(array_arc.val) \cup Records(schema_arc.val) :
          r.calls <= 1 /\ (r.release => r.calls = 0)
    /\ (built = "try_new" /\ bridge = "dropped")
          => AllReleasedOnce(schema_arc.val)
    /\ (built = "try_new" /\ bridge = "dropped" /\ live = {})
          => AllReleasedOnce(array_arc.val)

\* C3 as stated: once a bridge built by try_new has been dropped, every
\* descriptor of both trees has been released exactly once.
C3_AfterBridgeDrop ==
    (built = "try_new" /\ bridge = "dropped")
        => (AllReleasedOnce(array_arc.val) /\ AllReleasedOnce(schema_arc.val))

C3_Witness ==
    /\ built = "try_new"
    /\ bridge = "dropped"
    /\ live = {}
    /\ imports = 1
    /\ result.op = "to_data"
    /\ result.tag = "Ok"
    /\ array_arc.val.children # <<>>
    /\ AllReleasedOnce(array_arc.val)

\* C4: while any imported buffer (validity or data, of the root or of a
\* descendant) is alive the root array descriptor's release has not been
\* invoked, whether or not the bridge has been dropped; once the bridge
\* and the last such buffer are dropped it has been invoked once.
C4_OwnerLiveness ==
    /\ (built = "try_new" /\ live # {})
          => (array_arc.strong > 0 /\ array_arc.val.release
              /\ array_arc.val.calls = 0)
    /\ (built = "try_new" /\ bridge = "dropped" /\ live = {})
          => array_arc.val.calls = 1

C4_Witness ==
    /\ bridge = "dropped"
    /\ array_arc.val.calls = 0
    /\ Cardinality(live) = 1
    /\ \E h \in live : h.at # <<>> /\ h.index = 0

\* C5: every imported buffer, at any depth, holds the owner handle of the
\* top-level array descriptor; no child array record is released while a
\* borrow is alive, and each is released exactly once when the bridge and
\* all borrows are gone.
C5_RootedAtTop ==
    /\ \A h \in live : h.owner = <<>>
    /\ (built = "try_new" /\ live # {})
          => \A r \in Records(array_arc.val) : r.release /\ r.calls = 0
    /\ (built = "try_new" /\ bridge = "dropped" /\ live = {})
          => \A r \in Records(array_arc.val) : r.calls = 1

C5_Witness ==
    /\ bridge = "dropped"
    /\ \E h \in live : Len(h.at) = 2 /\ h.owner = <<>>
    /\ \A h \in live : h.at # <<>>

\* C6: under every interleaving of threads that each drop one handle on a
\* shared descriptor, release is invoked at most once, only after every
\* handle has been dropped, and by the thread whose drop was the last.
C6_ReleaseByLastDrop ==
    LET releases == {i \in DOMAIN tlog : tlog[i][1] = "release"}
        decs     == {i \in DOMAIN tlog : tlog[i][1] = "dec"}
    IN  /\ Cardinality(releases) <= 1
        /\ tarc.val.calls = Cardinality(releases)
        /\ \A i \in releases :
              /\ \A t \in DOMAIN tpc : tpc[t] # "holding"
              /\ Cardinality({j \in decs : j < i}) = Len(tpc)
              /\ \A j \in decs : (\A l \in decs : l <= j) => tlog[j][2] = tlog[i][2]

C6_Witness ==
    /\ Len(tpc) = 3
    /\ tkind[1] = "bridge"
    /\ tarc.val.calls = 1
    /\ tlog[Len(tlog)] = <<"release", 2>>
    /\ tlog[1] = <<"dec", 3>>

\* C7: a try_from_raw call returns an error exactly when one of the two
\* pointers is null, and then leaves both descriptors with the caller;
\* with both non-null it returns the bridge over the same two descriptors;
\* in neither case is a release callback invoked or a handle taken.
C7_TryFromRawNull ==
    [][(bridge = "raw" /\ result'.op = "try_from_raw"
            /\ (result' # result \/ bridge' # bridge))
        => /\ result'.tag = IF FALSE \in Range(result'.args) THEN "Err" ELSE "Ok"
           /\ bridge' = IF FALSE \in Range(result'.args) THEN "raw" ELSE "live"
           /\ array_arc' = array_arc
           /\ schema_arc' = schema_arc
           /\ live' = live]_vars

C7_Witness ==
    /\ bridge = "raw"
    /\ result.op = "try_from_raw"
    /\ result.tag = "Err"
    /\ result.args = <<TRUE, FALSE>>
    /\ array_arc.val.release
    /\ schema_arc.val.release

\* C8: for every variable-width type and every length, buffer_len(1) is
\* (length + 1) * offset_size with offset_size 4 for Utf8, Binary, List and
\* 8 for LargeUtf8, LargeBinary, LargeList, and buffer_len(2) is the value
\* at position `length` of the offsets buffer, which for an array at
\* offset 0 is the length of its data buffer.
C8_BufferLenLaw ==
    (result.op = "buffer_len"
        /\ source.data_type.k \in {"Utf8", "Binary", "List", "LargeUtf8",
                                   "LargeBinary", "LargeList"})
    => LET w == IF source.data_type.k \in {"Utf8", "Binary", "List"}
                THEN 4 ELSE 8
       IN  /\ result.args = <<1>>
              => (result.tag = "Ok" /\ result.val = (source.len + 1) * w)
           /\ result.args = <<2>>
              => /\ result.tag = "Ok"
                 /\ result.val = ReadLE(source.buffers[1].mem, source.len * w, w)
                 /\ (source.offset = 0 /\ Len(source.buffers) = 2)
                       => result.val = source.buffers[2].len

C8_Witness ==
    /\ result.op = "buffer_len"
    /\ result.args = <<2>>
    /\ result.tag = "Ok"
    /\ result.val = 3
    /\ source.data_type.k = "LargeUtf8"
    /\ source.len = 2
    /\ source.offset = 0

\* Bit 1 of a two's-complement integer: (x >> 1) & 1 == 1.
Bit1(x) == (x \div 2) % 2 = 1

\* C9: for every value of flags, negative values and values with bits 0
\* and 2 set included, the nullable a decoded field carries is bit 1 of
\* flags; and a schema built by try_new has flags 2 for a nullable field
\* and 0 otherwise.
C9_NullableIsBit1 ==
    /\ (cpc = "decoded" /\ cout.tag = "Ok")
          => cout.val.nullable = Bit1(cschema.flags)
    /\ cpc = "exported"
          => cschema.flags = IF cfield.nullable THEN 2 ELSE 0

\* The format string a descriptor's format pointer points to.
FormatOf(r) == SubSeq(r.format.mem, 1, Len(r.format.mem) - 1)

\* C10: to_format returns an error, and try_new no descriptor, for every
\* DataType variant outside the table; to_field returns an error for every
\* descriptor tree holding a format string outside the table.
C10_RejectsOutsideTable ==
    /\ (cout.op = "try_new" /\ cfield.data_type \notin TableLeafTypes
            /\ cfield.data_type.k \notin {"List", "LargeList", "Struct"})
          => /\ cout.format.tag = "Err"
             /\ cout.tag = "Err"
             /\ cschema = FFI_ArrowSchema_empty
    /\ (cpc = "decoded" /\ cout.origin = "foreign"
            /\ \E r \in Records(cschema) : FormatOf(r) \notin TableFormats)
          => cout.tag = "Err"

C10_Witness ==
    /\ cpc = "decoded"
    /\ cout.origin = "foreign"
    /\ cout.tag = "Err"
    /\ FormatOf(cschema) = <<"+", "s">>
    /\ FormatOf(cschema.children[1]) = <<"t", "s", "s", ":">>

\* C11 (amended): into_raw invokes no release callback and leaves both
\* descriptors unreleased with their strong reference retained;
\* try_from_raw on the two pointers gives a bridge over the same two
\* descriptors; after that bridge is dropped every schema descriptor has
\* been released exactly once, and so has every array descriptor once no
\* buffer imported from the bridge is alive.
C11_RawRoundTrip ==
    /\ [](bridge = "dropped" /\ result.op = "try_from_raw" /\ built = "try_new"
            => /\ AllReleasedOnce(schema_arc.val)
               /\ live = {} => AllReleasedOnce(array_arc.val))
    /\ [][(bridge \in {"live", "raw"} /\ bridge' \in {"live", "raw"} /\ bridge' # bridge)
            => (array_arc' = array_arc /\ schema_arc' = schema_arc)]_vars
    /\ [][(bridge = "live" /\ bridge' = "raw")
            => (array_arc'.strong >= 1 /\ schema_arc'.strong >= 1)]_vars
    /\ [][(result.op = "try_new" /\ bridge = "live" /\ bridge' = "raw")
            => (\A r \in Records(array_arc'.val) \cup Records(schema_arc'.val) :
                  r.release /\ r.calls = 0)]_vars

\* C11 as stated: after the re-imported bridge is dropped each descriptor
\* has been released exactly once.
C11_AfterReimportDrop ==
    (bridge = "dropped" /\ result.op = "try_from_raw" /\ built = "try_new")
        => (AllReleasedOnce(schema_arc.val) /\ AllReleasedOnce(array_arc.val))

C11_Witness ==
    /\ bridge = "dropped"
    /\ built = "try_new"
    /\ result.op = "try_from_raw"
    /\ result.tag = "Ok"
    /\ live = {}
    /\ imports = 0
    /\ array_arc.val.children # <<>>
    /\ AllReleasedOnce(array_arc.val)
    /\ AllReleasedOnce(schema_arc.val)

\* C12: ArrowArray::empty() returns a bridge whose two descriptors are both
\* in released form (release null, every pointer field null, every count
\* 0), and dropping this bridge invokes no release callback.
C12_EmptyIsReleased ==
    built = "empty" =>
        /\ ~array_arc.val.release
        /\ array_arc.val.buffers.null
        /\ array_arc.val.null_fields = {"children", "dictionary", "private_data"}
        /\ array_arc.val.children = <<>>
        /\ array_arc.val.private_data = <<>>
        /\ array_arc.val.length = 0
        /\ array_arc.val.null_count = 0
        /\ array_arc.val.offset = 0
        /\ array_arc.val.n_buffers = 0
        /\ array_arc.val.n_children = 0
        /\ array_arc.val.calls = 0
        /\ ~schema_arc.val.release
        /\ schema_arc.val.format.null
        /\ schema_arc.val.name.null
        /\ schema_arc.val.null_fields
              = {"metadata", "children", "dictionary", "private_data"}
        /\ schema_arc.val.children = <<>>
        /\ schema_arc.val.n_children = 0
        /\ schema_arc.val.flags = 0
        /\ schema_arc.val.calls = 0

C12_Witness ==
    /\ built = "empty"
    /\ bridge = "dropped"
    /\ array_arc.strong = 0
    /\ schema_arc.strong = 0
    /\ array_arc.val.calls = 0
    /\ schema_arc.val.calls = 0

\* The native bit width of a fixed-width type of the format table.
TableBits(t) ==
    CASE t.k = "Boolean"                                       -> 1
      [] t.k \in {"Int8", "UInt8"}                             -> 8
      [] t.k \in {"Int16", "UInt16", "Float16"}                -> 16
      [] t.k \in {"Int32", "UInt32", "Float32", "Date32", "Time32"} -> 32
      [] t.k \in {"Int64", "UInt64", "Float64", "Date64", "Time64"} -> 64

\* C13: bit_width agrees with the buffer table for every (dtype, i): i = 0
\* gives 1; every primitive type (Float16 included, at 16) gives its native
\* bit width at i = 1 and an error at i >= 2; Utf8/Binary/List give 32, 8,
\* error; LargeUtf8/LargeBinary/LargeList give 64, 8, error; every other
\* type gives an error.
C13_BitWidthTable ==
    cout.op = "bit_width" =>
        LET t == cfield.data_type
            i == cout.args[1]
            is(v) == cout.tag = "Ok" /\ cout.val = v
        IN  IF i = 0 THEN is(1)
            ELSE IF t.k \in {"Boolean", "Int8", "UInt8", "Int16", "UInt16",
                             "Int32", "UInt32", "Int64", "UInt64", "Float16",
                             "Float32", "Float64", "Date32", "Date64",
                             "Time32", "Time64"}
            THEN IF i = 1 THEN is(TableBits(t)) ELSE cout.tag = "Err"
            ELSE IF t.k \in {"Utf8", "Binary", "List"}
            THEN IF i = 1 THEN is(32) ELSE IF i = 2 THEN is(8)
                 ELSE cout.tag = "Err"
            ELSE IF t.k \in {"LargeUtf8", "LargeBinary", "LargeList"}
            THEN IF i = 1 THEN is(64) ELSE IF i = 2 THEN is(8)
                 ELSE cout.tag = "Err"
            ELSE cout.tag = "Err"

\* The table without its Float16 row at i = 1.
C13_ExceptFloat16 ==
    (cout.op = "bit_width"
        /\ ~(cfield.data_type.k = "Float16" /\ cout.args[1] = 1))
    => C13_BitWidthTable

RECURSIVE Retains(_, _)
Retains(r, d) ==
    r.release =>
        /\ r.n_buffers = 1 + Len(d.buffers)
        /\ ~r.buffers.null
        /\ Len(r.buffers.vec) = r.n_buffers
        /\ Len(r.private_data) = r.n_buffers
        /\ r.buffers.vec[1].null = ~d.null_bitmap.some
        /\ \A i \in 1..r.n_buffers :
              /\ r.private_data[i]
                    = (IF i = 1 THEN d.null_bitmap ELSE Some(d.buffers[i - 1]))
              /\ ~r.buffers.vec[i].null
                    => /\ r.private_data[i].some
                       /\ r.buffers.vec[i].mem = r.private_data[i].buf.mem
                       /\ r.private_data[i].buf.owner = <<-1>>
        /\ r.null_fields \cap {"children", "private_data"} = {}
        /\ r.n_children = Len(d.child_data)
        /\ Len(r.children) = r.n_children
        /\ \A i \in 1..r.n_children : Retains(r.children[i], d.child_data[i])

\* C15: from its construction by FFI_ArrowArray::new until release_array
\* runs, every array descriptor has n_buffers = 1 + the number of data
\* buffers, entry 0 of its buffers vector null exactly when the source has
\* no validity buffer, every non-null entry i pointing into the buffer handle
\* retained at position i of its private data, and its child records owned
\* by its private data; the source ArrayData itself is gone by then.
C15_ExportRetention ==
    built = "try_new" => Retains(array_arc.val, source)

C15_Witness ==
    /\ built = "try_new"
    /\ bridge = "raw"
    /\ array_arc.val.release
    /\ array_arc.val.n_children = 2
    /\ array_arc.val.children[1].release
    /\ array_arc.val.children[1].n_buffers = 3
    /\ ~array_arc.val.children[1].buffers.vec[1].null
    /\ array_arc.val.buffers.vec[1].null
    /\ Retains(array_arc.val, source)

\* C16: on import, a null pointer for any non-validity buffer (index 1 ..
\* n_buffers - 1) of the descriptor makes to_data return an error and no
\* ArrayData, the error of the first such buffer in index order, so that a
\* null offsets pointer is never read to size buffer 2; a null pointer at
\* index 0 is no error and gives an absent validity buffer.
C16_NullBufferPointers ==
    (built = "foreign" /\ bridge = "live" /\ result.op = "to_data") =>
        LET a    == array_arc.val
            view == View(a, schema_arc.val, <<>>)
            set  == View([a EXCEPT !.buffers.vec[1] = Ptr(<<0>>)],
                         schema_arc.val, <<>>)
        IN  /\ (/\ data_type(view).tag = "Ok"
                 /\ \E i \in 2..a.n_buffers :
                       i <= Len(a.buffers.vec) /\ a.buffers.vec[i].null)
                => (result.tag = "Err" /\ result.val = <<>>)
            /\ (a.n_buffers >= 1 /\ a.buffers.vec[1].null
                    /\ to_data(set).tag = "Ok")
                => /\ result.tag = "Ok"
                   /\ ~result.val.null_bitmap.some
                   /\ result.val.buffers = to_data(set).val.buffers

C16_Witness ==
    /\ built = "foreign"
    /\ bridge = "live"
    /\ result.op = "to_data"
    /\ source.data_type = DT("Utf8")
    /\ array_arc.val.n_buffers = 3
    /\ ~array_arc.val.buffers.vec[1].null
    /\ array_arc.val.buffers.vec[2].null
    /\ ~array_arc.val.buffers.vec[3].null
    /\ result.tag = "Err"

\* C17: when ArrowArray::try_new fails because the type, at top level or in
\* a nested child field, is unsupported, it returns an error, and every
\* array descriptor and every child schema descriptor constructed during
\* the call has been released exactly once when the call returns: none is
\* left with a non-null release.
C17_ExportFailureLeakFree ==
    (built = "try_new" /\ bridge = "failed") =>
        /\ result.op = "try_new"
        /\ result.tag = "Err"
        /\ array_arc.strong = 0
        /\ AllReleasedOnce(array_arc.val)
        /\ Cardinality(Records(array_arc.val)) >= 1 + Len(source.child_data)
        /\ schema_arc = NoSchemaArc
        /\ \A i \in DOMAIN result.val : AllReleasedOnce(result.val[i])
        /\ \A i \in DOMAIN result.val :
              result.val[i].format = Freed /\ result.val[i].name = Freed
        /\ source.data_type.k = "Struct"
            => Len(result.val)
                 = Min({i \in DOMAIN source.data_type.fields :
                         to_format(source.data_type.fields[i].data_type).tag
                            # "Ok"}) - 1

C17_Witness ==
    /\ built = "try_new"
    /\ bridge = "failed"
    /\ result.tag = "Err"
    /\ source.data_type.k = "Struct"
    /\ Len(result.val) = 1
    /\ ~result.val[1].release
    /\ result.val[1].calls = 1
    /\ Len(array_arc.val.children) = 2
    /\ AllReleasedOnce(array_arc.val)

\* C18: inconsistent child counts on import produce an error value: to_data
\* returns an error (it neither aborts nor reads past the schema's children
\* vector) when the array descriptor's n_children differs from the
\* schema's n_children, and when a schema of format "+l" or "+L" has
\* n_children = 0.
C18_ChildCountMismatch ==
    (built = "foreign" /\ bridge = "live" /\ result.op = "to_data") =>
        LET a == array_arc.val
            s == schema_arc.val
        IN  (\/ a.n_children # s.n_children
             \/ /\ s.n_children = 0
                /\ format(s) \in {Ok(<<"+", "l">>), Ok(<<"+", "L">>)})
            => result.tag = "Err"

\* What to_data does on a descriptor pair with inconsistent child counts:
\* a list schema without its child aborts; a child of the array descriptor
\* at an index past the schema's children vector is undefined behaviour;
\* with fewer children in the array descriptor than in the schema to_data
\* returns an ArrayData.
C18_Outcomes ==
    (built = "foreign" /\ bridge = "live" /\ result.op = "to_data") =>
        LET a == array_arc.val
            s == schema_arc.val
            list == format(s) \in {Ok(<<"+", "l">>), Ok(<<"+", "L">>)}
        IN  /\ (list /\ s.n_children = 0) => result.tag = "Panic"
            /\ (a.n_children > s.n_children
                    /\ data_type(View(a, s, <<>>)).tag = "Ok"
                    /\ buffers(View(a, s, <<>>)).tag = "Ok")
                => result.tag = "UB"
            /\ (a.n_children < s.n_children
                    /\ data_type(View(a, s, <<>>)).tag = "Ok")
                => (result.tag = "Ok"
                    /\ Len(result.val.child_data) = a.n_children
                    /\ format(s) = Ok(<<"+", "s">>)
                        => Len(result.val.data_type.fields) = s.n_children)

\* The children fail to be reconstructed while the root's own type and
\* buffers are in order.
ChildFails ==
    LET view == View(array_arc.val, schema_arc.val, <<>>)
    IN  /\ data_type(view).tag = "Ok"
        /\ buffers(view).tag = "Ok"
        /\ \E i \in 0..(array_arc.val.n_children - 1) :
              /\ ViewChild(view, i).tag = "Ok"
              /\ to_data(ViewChild(view, i).val).tag = "Err"

\* C19: errors inside nested import are returned: whenever the
\* reconstruction of a child fails (unsupported child format, buffer index
\* out of range for the child's type, null required child buffer), to_data
\* on the root returns an error value.
C19_NestedErrorsReturned ==
    (built = "foreign" /\ bridge = "live" /\ result.op = "to_data"
        /\ ChildFails)
    => result.tag = "Err"

\* What to_data does when a child fails: the root aborts on the unwrap of
\* the child's error, nothing was imported, and the bridge is intact:
\* dropping it releases each descriptor exactly once.
C19_Outcomes ==
    /\ (built = "foreign" /\ bridge = "live" /\ result.op = "to_data"
            /\ ChildFails)
        => (result.tag = "Panic" /\ live = {} /\ array_arc.strong = 1
            /\ \A r \in Records(array_arc.val) : r.release /\ r.calls = 0)
    /\ (built = "foreign" /\ bridge = "dropped" /\ result.op = "to_data"
            /\ result.tag = "Panic")
        => (AllReleasedOnce(array_arc.val) /\ AllReleasedOnce(schema_arc.val))

\* The byte lengths of the buffers of the ArrayData d are enough for the
\* elements offset .. offset + len - 1 of d and of all its children.
RECURSIVE Covers(_)
Covers(d) ==
    LET t == d.offset + d.len
        k == d.data_type.k
    IN  /\ d.null_bitmap.some => d.null_bitmap.buf.len >= (t + 7) \div 8
        /\ k \in {x.k : x \in FixedWidthTypes}
            => d.buffers[1].len >= (t * NativeBits(d.data_type) + 7) \div 8
        /\ k \in {"Utf8", "Binary", "LargeUtf8", "LargeBinary", "List",
                   "LargeList"}
            => d.buffers[1].len >= (t + 1) * OffsetBytes(d.data_type)
        /\ \A i \in DOMAIN d.child_data : Covers(d.child_data[i])

\* C20: imported buffers cover the logical window: for every descriptor of
\* logical offset o >= 0 and length n that to_data accepts, the byte length
\* given to each imported buffer holds the elements o .. o+n-1 (validity at
\* least ceil((o+n)/8) bytes, fixed-width data at least ceil((o+n)*bits/8)
\* bytes, offsets at least (o+n+1)*offset_size bytes).
C20_WindowCovered ==
    (built = "try_new" /\ result.op = "to_data" /\ result.tag = "Ok")
    => Covers(result.val)

\* The window is covered when the logical offset is 0.
C20_CoveredAtOffset0 ==
    (built = "try_new" /\ result.op = "to_data" /\ result.tag = "Ok"
        /\ source.offset = 0)
    => Covers(result.val)

====
